---- MODULE Spec2Model ----
(***************************************************************************)
(* ras-chat (src/src/main.rs): a fixed-capacity ring log of chat messages  *)
(* behind one Mutex, served by three request handlers (set_message,        *)
(* get_messages, get_messages_from) that run concurrently on a pool of     *)
(* worker threads.                                                         *)
(*                                                                         *)
(* Rust indices are 0-based and are kept 0-based here (end_index, index);  *)
(* At(q, i) reads messages[i] of the code.  Strings are TLA+ strings, a    *)
(* built String result is the sequence of the pieces appended to it.       *)
(***************************************************************************)
EXTENDS Integers, Sequences, FiniteSets, TLC

\* ------------------------------------------------------------------ bounds
\* config.queue_len ranges over 0 .. MaxQueueLen (the code validates nothing).
MaxQueueLen == 3
\* Successful pushes recorded since construction (caps the history).
MaxAppends == 4

\* ------------------------------------------------------------------ inputs
\* The worker threads (config.threads): two of them contend for the one lock.
Threads == {1, 2}
\* The values SystemTime::now() returns, in milliseconds since the epoch.
Millis == {1, 2}
QueueLens == 0 .. MaxQueueLen
\* config.max_message_len and config.right_role values explored.
MaxMessageLens == {2}
RightRoles == {5}

\* Tokens the external ras_auth_client accepts, with the claims they carry,
\* and one it rejects.
ValidTokens == { [user_name |-> "a", user_role |-> 3],
                 [user_name |-> "b", user_role |-> 2] }
BadToken == [user_name |-> "?", user_role |-> 0]
Tokens == ValidTokens \cup {BadToken}

\* Client-chosen message bodies and start keys.
Bodies == {"x", "yy"}
StartKeys == {"", "a1", "zz"}

\* A field of the parsed HashMap<String, Option<String>>: the key is absent,
\* present with null, or present with a value.
Absent == [k |-> "absent", v |-> ""]
Null == [k |-> "null", v |-> ""]
Some(v) == [k |-> "some", v |-> v]

\* ------------------------------------------------------------- struct Queue
Message(key, data) == [key |-> key, data |-> data]

At(q, i) == q.messages[i + 1]

\* Mutant of Queue_new: the cursor starts on the last slot, so that the first
\* push lands in slot 0.
Queue_new_cursor_last(len, max_message_len) ==
  [ messages |-> [i \in 1 .. len |-> Message("", "")],
    output_capacity |-> len * max_message_len,
    max_message_len |-> max_message_len,
    end_index |-> IF len = 0 THEN 0 ELSE len - 1 ]

Queue_new(len, max_message_len) ==
  [ messages |-> [i \in 1 .. len |-> Message("", "")],
    output_capacity |-> len * max_message_len,
    max_message_len |-> max_message_len,
    end_index |-> 0 ]

\* Mutant of push_rejects: the bound is taken as inclusive.
push_rejects_above(q, message) == Len(message) > q.max_message_len

\* fn push, lines 91-93: the length test that rejects a message.
push_rejects(q, message) == Len(message) >= q.max_message_len

\* Mutant of push_advance: the wrap comes one step late.
push_advance_late_wrap(q) ==
  [q EXCEPT !.end_index =
     IF q.end_index + 1 > Len(q.messages) THEN 0 ELSE q.end_index + 1]

\* fn push, lines 94-97: the cursor moves on, wrapping to 0.
push_advance(q) ==
  [q EXCEPT !.end_index =
     IF q.end_index + 1 >= Len(q.messages) THEN 0 ELSE q.end_index + 1]

\* fn push, line 98: messages[end_index] is a checked index (it panics when
\* out of bounds, which happens only for an empty Vec).
push_in_bounds(q) == q.end_index < Len(q.messages)

\* Mutant of push_store: the slot before the cursor is replaced.
push_store_behind(q, key, message) ==
  [q EXCEPT !.messages[IF q.end_index = 0 THEN Len(q.messages) ELSE q.end_index]
              = Message(key, message)]

\* fn push, lines 98-101: the slot under the cursor is replaced.
push_store(q, key, message) ==
  [q EXCEPT !.messages[q.end_index + 1] = Message(key, message)]

\* The pieces a result String is built from.
Open == [piece |-> "open", key |-> "", data |-> ""]
Close == [piece |-> "close", key |-> "", data |-> ""]
Sep == [piece |-> "sep", key |-> "", data |-> ""]
Entry(m) == [piece |-> "entry", key |-> m.key, data |-> m.data]

IsEntry(p) == p.piece = "entry"

\* The (key, data) pairs listed by a result, in order.
Entries(result) ==
  LET es == SelectSeq(result, IsEntry)
  IN [i \in 1 .. Len(es) |-> Message(es[i].key, es[i].data)]

\* One run of a scan loop: it returns ("ok"), never leaves the loop
\* ("diverge"), or panics ("panic").  steps counts the iterations begun.
Returned(result, steps) == [status |-> "ok", result |-> result, steps |-> steps]
Diverged(result, steps) == [status |-> "diverge", result |-> result, steps |-> steps]
Panicked == [status |-> "panic", result |-> <<>>, steps |-> 0]

\* The exit test of both scan loops (lines 115 and 139): the index, which is
\* always below messages.len(), is compared with end_index + 1 as it is.
loop_break(q, index) == index = q.end_index + 1

\* fn get_all, lines 109-120.  The loop state is index alone and index takes
\* every value below messages.len() within messages.len() iterations, so a
\* loop that begins one more iteration than that never exits.
RECURSIVE get_all_loop(_, _, _, _)
get_all_loop(q, index, result, steps) ==
  LET written == Append(result, Entry(At(q, index)))
      next == (index + 1) % Len(q.messages)
  IN IF loop_break(q, next) THEN Returned(written, steps + 1)
     ELSE IF steps + 1 > Len(q.messages) THEN Diverged(written, steps + 1)
     ELSE get_all_loop(q, next, Append(written, Sep), steps + 1)

\* fn get_all, lines 105-123 (% messages.len() panics on an empty Vec).
get_all(q) ==
  IF Len(q.messages) = 0 THEN Panicked
  ELSE LET r == get_all_loop(q, (q.end_index + 1) % Len(q.messages), <<Open>>, 0)
       IN IF r.status = "ok" THEN Returned(Append(r.result, Close), r.steps) ELSE r

\* fn get_from, lines 131-147.
RECURSIVE get_from_loop(_, _, _, _, _, _)
get_from_loop(q, key, index, start_write, result, steps) ==
  LET written == IF start_write THEN Append(result, Entry(At(q, index))) ELSE result
      next == (index + 1) % Len(q.messages)
  IN IF loop_break(q, next) THEN Returned(written, steps + 1)
     ELSE IF steps + 1 > Len(q.messages) THEN Diverged(written, steps + 1)
     ELSE get_from_loop(q, key, next,
                        start_write \/ key = At(q, next).key,
                        IF start_write THEN Append(written, Sep) ELSE written,
                        steps + 1)

\* Mutant of get_from: the slot the scan starts on is compared with the key.
get_from_matching_first(q, key) ==
  IF Len(q.messages) = 0 THEN Panicked
  ELSE LET first == (q.end_index + 1) % Len(q.messages)
           r == get_from_loop(q, key, first, key = At(q, first).key, <<Open>>, 0)
       IN IF r.status = "ok" THEN Returned(Append(r.result, Close), r.steps) ELSE r

\* fn get_from, lines 125-150.
get_from(q, key) ==
  IF Len(q.messages) = 0 THEN Panicked
  ELSE LET r == get_from_loop(q, key, (q.end_index + 1) % Len(q.messages),
                              FALSE, <<Open>>, 0)
       IN IF r.status = "ok" THEN Returned(Append(r.result, Close), r.steps) ELSE r

VARIABLES queue, right_role, mutex, guard, pc, loc, resp, appended

vars == <<queue, right_role, mutex, guard, pc, loc, resp, appended>>

\* The locals of a handler: the validated token, and the key and message (or
\* the start key) it takes to the queue.
NoToken == [user_name |-> "", user_role |-> 0]
NoLocals == [op |-> "", token |-> NoToken, key |-> "", message |-> ""]
NoResp == [status |-> "", body |-> <<>>]

Init ==
  /\ \E len \in QueueLens, mml \in MaxMessageLens : queue = Queue_new(len, mml)
  /\ right_role \in RightRoles
  /\ mutex = [locked |-> FALSE, poisoned |-> FALSE]
  /\ guard = [t \in Threads |-> FALSE]
  /\ pc = [t \in Threads |-> "idle"]
  /\ loc = [t \in Threads |-> NoLocals]
  /\ resp = [t \in Threads |-> NoResp]
  /\ appended = <<>>

\* ------------------------------------------------------- request payloads
\* query: Option<&str> is None, a string serde_json rejects, or a JSON object.
Fields(values) == {Absent, Null} \cup {Some(v) : v \in values}

Queries ==
  { [kind |-> "none", token |-> Absent, message |-> Absent, start_key |-> Absent],
    [kind |-> "garbled", token |-> Absent, message |-> Absent, start_key |-> Absent] }
  \cup [ kind : {"map"}, token : Fields(Tokens), message : Fields(Bodies),
         start_key : {Absent} ]
  \cup [ kind : {"map"}, token : Fields(Tokens), message : {Absent},
         start_key : Fields(StartKeys) ]
  \cup [ kind : {"map"}, token : Fields(Tokens), message : {Some("x")},
         start_key : {Some("a1")} ]

\* u8 & u8.
RECURSIVE BitAnd(_, _)
BitAnd(a, b) ==
  IF a = 0 \/ b = 0 THEN 0
  ELSE (a % 2) * (b % 2) + 2 * BitAnd(a \div 2, b \div 2)

\* Mutant of role_refused: every bit of right_role is asked for.
role_refused_unless_all(role, user_role) == BitAnd(role, user_role) # role

\* Line 188 (and 243, 284): the role test that refuses a request.
role_refused(role, user_role) == BitAnd(role, user_role) = 0

\* Lines 184-187: the external ras_auth_client verifies the token.
check_and_get_access_token(token) == token \in ValidTokens

\* Lines 169-190, repeated word for word at 224-245 and 265-286: what a
\* handler does before it looks at its own fields.  status "pass" lets the
\* handler go on; any other status is the response it returns, "Panic" being
\* the panic of HashMap's Index on a key the object does not hold.
handler_prefix(query, role) ==
  IF query.kind # "map" THEN "BadRequest"
  ELSE IF query.token.k = "absent" THEN "Panic"
  ELSE IF query.token.k = "null" THEN "BadRequest"
  ELSE IF ~check_and_get_access_token(query.token.v) THEN "AuthenticationTimeout"
  ELSE IF role_refused(role, query.token.v.user_role) THEN "Forbidden"
  ELSE "pass"

\* Lines 199-202 and 287-290: a field the handler needs.
field_status(f) ==
  IF f.k = "absent" THEN "Panic"
  ELSE IF f.k = "null" THEN "BadRequest"
  ELSE "pass"

\* Lines 191-198: the key stored with a message.
make_key(user_name, now) == user_name \o ToString(now)

\* ------------------------------------------------------------------ steps
\* The token local of a handler that ends its prefix with status: bound once
\* check_and_get_access_token has returned Ok.
prefix_token(query, status) ==
  IF status \in {"Forbidden", "pass"} THEN query.token.v ELSE NoToken

\* A handler returns status without having touched the lock.
Respond(t, op, token, status) ==
  /\ pc' = [pc EXCEPT ![t] = "ret"]
  /\ loc' = [loc EXCEPT ![t] = [NoLocals EXCEPT !.op = op, !.token = token]]
  /\ resp' = [resp EXCEPT ![t] = [status |-> status, body |-> <<>>]]
  /\ UNCHANGED <<queue, right_role, mutex, guard, appended>>

\* A handler goes on to queue.lock() with its locals bound.
Proceed(t, op, token, key, message) ==
  /\ pc' = [pc EXCEPT ![t] = "lock"]
  /\ loc' = [loc EXCEPT ![t] =
              [op |-> op, token |-> token, key |-> key, message |-> message]]
  /\ UNCHANGED <<queue, right_role, mutex, guard, resp, appended>>

\* Pushes that have been let through and have not yet stored their message.
PendingPushes ==
  Cardinality({u \in Threads : loc[u].op = "set_message"
                               /\ pc[u] \in {"lock", "locked", "stored_cursor"}})

\* set_message, lines 169-202.
set_message_begin(t, query, now) ==
  /\ pc[t] = "idle"
  /\ LET pre == handler_prefix(query, right_role)
         msg == field_status(query.message)
         token == prefix_token(query, pre)
     IN IF pre # "pass" THEN Respond(t, "set_message", token, pre)
        ELSE IF msg # "pass" THEN Respond(t, "set_message", token, msg)
        ELSE /\ Len(appended) + PendingPushes < MaxAppends
             /\ Proceed(t, "set_message", token,
                        make_key(token.user_name, now), query.message.v)

\* get_messages, lines 224-245.
get_messages_begin(t, query) ==
  /\ pc[t] = "idle"
  /\ LET pre == handler_prefix(query, right_role)
         token == prefix_token(query, pre)
     IN IF pre # "pass" THEN Respond(t, "get_messages", token, pre)
        ELSE Proceed(t, "get_messages", token, "", "")

\* get_messages_from, lines 265-290.
get_messages_from_begin(t, query) ==
  /\ pc[t] = "idle"
  /\ LET pre == handler_prefix(query, right_role)
         key == field_status(query.start_key)
         token == prefix_token(query, pre)
     IN IF pre # "pass" THEN Respond(t, "get_messages_from", token, pre)
        ELSE IF key # "pass" THEN Respond(t, "get_messages_from", token, key)
        ELSE Proceed(t, "get_messages_from", token, query.start_key.v, "")

\* Mutant of lock_free: the lock is handed out while a guard is alive.
lock_shared(m) == TRUE

\* Mutex::lock blocks while another guard is alive.
lock_free(m) == ~m.locked

\* Mutant of queue_lock: the guard is taken out of the PoisonError and used.
queue_lock_into_inner(t) ==
  /\ pc[t] = "lock"
  /\ lock_free(mutex)
  /\ pc' = [pc EXCEPT ![t] = "locked"]
  /\ mutex' = [mutex EXCEPT !.locked = TRUE]
  /\ guard' = [guard EXCEPT ![t] = TRUE]
  /\ UNCHANGED <<queue, right_role, loc, resp, appended>>

\* Lines 204-210 (and 248-254, 293-299): queue.lock().  A poisoned mutex
\* hands out Err, and the handler answers InternalServerError.
queue_lock(t) ==
  /\ pc[t] = "lock"
  /\ lock_free(mutex)
  /\ IF mutex.poisoned
       THEN /\ pc' = [pc EXCEPT ![t] = "ret"]
            /\ resp' = [resp EXCEPT ![t] = [status |-> "InternalServerError", body |-> <<>>]]
            /\ UNCHANGED <<mutex, guard>>
       ELSE /\ pc' = [pc EXCEPT ![t] = "locked"]
            /\ mutex' = [mutex EXCEPT !.locked = TRUE]
            /\ guard' = [guard EXCEPT ![t] = TRUE]
            /\ UNCHANGED resp
  /\ UNCHANGED <<queue, right_role, loc, appended>>

\* A panic under the guard: unwinding drops the guard, which poisons the
\* mutex, and the request gets no response of the handler's.
PanicUnderGuard(t) ==
  /\ pc' = [pc EXCEPT ![t] = "ret"]
  /\ resp' = [resp EXCEPT ![t] = [status |-> "Panic", body |-> <<>>]]
  /\ mutex' = [locked |-> FALSE, poisoned |-> TRUE]
  /\ guard' = [guard EXCEPT ![t] = FALSE]

\* The handler has its result and still holds the guard.
Result(t, status, body) ==
  /\ pc' = [pc EXCEPT ![t] = "ret"]
  /\ resp' = [resp EXCEPT ![t] = [status |-> status, body |-> body]]
  /\ UNCHANGED <<mutex, guard>>

\* set_message line 212 into push lines 91-97: the length test and the
\* cursor update.
push_cursor(t) ==
  /\ pc[t] = "locked"
  /\ loc[t].op = "set_message"
  /\ IF push_rejects(queue, loc[t].message)
       THEN Result(t, "BadRequest", <<>>) /\ UNCHANGED queue
       ELSE /\ queue' = push_advance(queue)
            /\ pc' = [pc EXCEPT ![t] = "stored_cursor"]
            /\ UNCHANGED <<mutex, guard, resp>>
  /\ UNCHANGED <<right_role, loc, appended>>

\* push lines 98-102 and set_message line 213: the slot is written.
push_slot(t) ==
  /\ pc[t] = "stored_cursor"
  /\ IF push_in_bounds(queue)
       THEN /\ queue' = push_store(queue, loc[t].key, loc[t].message)
            /\ appended' = Append(appended, Message(loc[t].key, loc[t].message))
            /\ Result(t, "OK", <<>>)
       ELSE PanicUnderGuard(t) /\ UNCHANGED <<queue, appended>>
  /\ UNCHANGED <<right_role, loc>>

\* A scan under the guard: its result, a loop that never ends (the guard is
\* never dropped; a loop that keeps writing grows its String until the
\* allocation fails and the process aborts), or a panic.
Scan(t, r) ==
  /\ CASE r.status = "ok" -> Result(t, "OK", r.result)
       [] r.status = "diverge" -> /\ pc' = [pc EXCEPT ![t] = "spin"]
                                  /\ UNCHANGED <<mutex, guard, resp>>
       [] OTHER -> PanicUnderGuard(t)
  /\ UNCHANGED <<queue, right_role, loc, appended>>

\* get_messages line 256.
get_messages_scan(t) ==
  /\ pc[t] = "locked"
  /\ loc[t].op = "get_messages"
  /\ Scan(t, get_all(queue))

\* get_messages_from line 301.
get_messages_from_scan(t) ==
  /\ pc[t] = "locked"
  /\ loc[t].op = "get_messages_from"
  /\ Scan(t, get_from(queue, loc[t].key))

\* The handler returns: the guard, if alive, is dropped and the worker is
\* free for the next request.
handler_return(t) ==
  /\ pc[t] = "ret"
  /\ pc' = [pc EXCEPT ![t] = "idle"]
  /\ loc' = [loc EXCEPT ![t] = NoLocals]
  /\ resp' = [resp EXCEPT ![t] = NoResp]
  /\ guard' = [guard EXCEPT ![t] = FALSE]
  /\ mutex' = IF guard[t] THEN [mutex EXCEPT !.locked = FALSE] ELSE mutex
  /\ UNCHANGED <<queue, right_role, appended>>

Next ==
  \/ \E t \in Threads, query \in Queries, now \in Millis : set_message_begin(t, query, now)
  \/ \E t \in Threads, query \in Queries : get_messages_begin(t, query)
  \/ \E t \in Threads, query \in Queries : get_messages_from_begin(t, query)
  \/ \E t \in Threads : queue_lock(t)
  \/ \E t \in Threads : push_cursor(t)
  \/ \E t \in Threads : push_slot(t)
  \/ \E t \in Threads : get_messages_scan(t)
  \/ \E t \in Threads : get_messages_from_scan(t)
  \/ \E t \in Threads : handler_return(t)

Spec == Init /\ [][Next]_vars

\* A burst of writes: every worker sends one set_message, with a valid and
\* granted token and a body of its own choice, into the fresh log, and
\* get_messages reads the log.
BurstBodies == {"x", "y"}

BurstQueries ==
  [ kind : {"map"}, token : {Some(tok) : tok \in ValidTokens},
    message : {Some(v) : v \in BurstBodies}, start_key : {Absent} ]

NextBurst ==
  \/ \E t \in Threads, query \in BurstQueries, now \in Millis :
       /\ Len(appended) + PendingPushes < Cardinality(Threads)
       /\ set_message_begin(t, query, now)
  \/ \E t \in Threads, query \in BurstQueries : get_messages_begin(t, query)
  \/ \E t \in Threads : queue_lock(t)
  \/ \E t \in Threads : push_cursor(t)
  \/ \E t \in Threads : push_slot(t)
  \/ \E t \in Threads : get_messages_scan(t)
  \/ \E t \in Threads : handler_return(t)

SpecBurst == Init /\ [][NextBurst]_vars
\* ----------------------------------------------------------------- claims
Capacity == Len(queue.messages)

Min(a, b) == IF a < b THEN a ELSE b

\* The slots from the oldest to the newest: index (end_index + 1) mod C
\* first, the cursor's slot last.
Chron(q) ==
  [i \in 1 .. Len(q.messages) |-> At(q, (q.end_index + i) % Len(q.messages))]

Suffix(seq, from) == [i \in 1 .. Len(seq) - from + 1 |-> seq[from + i - 1]]

Range(seq) == {seq[i] : i \in 1 .. Len(seq)}

Distinct(seq) == \A i, j \in 1 .. Len(seq) : i # j => seq[i] # seq[j]

Keys(seq) == [i \in 1 .. Len(seq) |-> seq[i].key]

\* Thread t has run the scan of handler op under the guard: the scan has
\* returned and the result is in resp[t], or the scan is still looping.
Scanned(t, op) ==
  /\ loc[t].op = op
  /\ guard[t]
  /\ pc[t] \in {"ret", "spin"}
  /\ Capacity >= 1

\* The scan of thread t came back with a result.
Answered(t) == pc[t] = "ret" /\ resp[t].status = "OK"

\* C1: for every capacity C >= 1 and after any number of successful appends,
\* get_all returns a result that lists exactly C entries.
C1_SnapshotAllHasCapacityEntries ==
  \A t \in Threads :
    Scanned(t, "get_messages") =>
      Answered(t) /\ Len(Entries(resp[t].body)) = Capacity

\* C2: a handler holds the queue lock for one append or one scan of at most
\* C loop iterations, so the lock is never held by a loop that does not end.
C2_LockHeldForOneBoundedScan ==
  \A t \in Threads :
    /\ guard[t] => pc[t] # "spin"
    /\ (pc[t] = "locked" /\ loc[t].op = "get_messages")
         => get_all(queue).steps <= Capacity
    /\ (pc[t] = "locked" /\ loc[t].op = "get_messages_from")
         => get_from(queue, loc[t].key).steps <= Capacity

\* C3: get_all returns the appended messages in the order of their appends,
\* oldest first and newest last, restricted to the most recent C of them.
C3_SnapshotAllInAppendOrder ==
  \A t \in Threads :
    Scanned(t, "get_messages") =>
      /\ Answered(t)
      /\ LET es == Entries(resp[t].body)
             n == Len(appended)
             k == Min(n, Capacity)
         IN /\ Len(es) >= k
            /\ \A i \in 1 .. k : es[Len(es) - k + i] = appended[n - k + i]

\* C4: after C+1 distinct messages have been appended to a fresh log of
\* capacity C, get_all no longer lists the first of them and lists the
\* second of them first.
C4_OverwriteAfterCapacityPlusOne ==
  \A t \in Threads :
    ( /\ Scanned(t, "get_messages")
      /\ Len(appended) = Capacity + 1
      /\ Distinct(appended) )
    => /\ Answered(t)
       /\ LET es == Entries(resp[t].body)
          IN /\ appended[1] \notin Range(es)
             /\ Len(es) >= 1
             /\ es[1] = appended[2]
Holders(k) == {i \in 1 .. Capacity : Chron(queue)[i].key = k}

\* C6: in a state reached by appends with pairwise distinct keys, get_from(k)
\* for a key k held by one slot that is not the oldest returns that slot and
\* every newer slot, oldest first.
C6_MarkerInclusiveMatch ==
  \A t \in Threads : \A i \in 2 .. Capacity :
    ( /\ Scanned(t, "get_messages_from")
      /\ Distinct(Keys(appended))
      /\ Holders(loc[t].key) = {i} )
    => /\ Answered(t)
       /\ Entries(resp[t].body) = Suffix(Chron(queue), i)

\* C7: when the marker key is held by the oldest slot alone, get_from returns
\* no entry although get_all, in the same state, lists that key.
C7_OldestSlotExcluded ==
  \A t \in Threads :
    ( /\ Scanned(t, "get_messages_from")
      /\ Holders(loc[t].key) = {1} )
    => /\ Answered(t)
       /\ Entries(resp[t].body) = <<>>
       /\ get_all(queue).status = "ok"
       /\ loc[t].key \in Range(Keys(Entries(get_all(queue).result)))

\* C8: get_from with a key that no slot holds returns no entry, and never an
\* error.
C8_UnknownMarkerIsEmpty ==
  \A t \in Threads :
    ( /\ Scanned(t, "get_messages_from")
      /\ Holders(loc[t].key) = {} )
    => /\ Answered(t)
       /\ Entries(resp[t].body) = <<>>

\* The handler of thread t has a validated token, and the role test on it.
Validated(t) == loc[t].token \in ValidTokens
Granted(t) == BitAnd(right_role, loc[t].token.user_role) # 0

\* C9: access is granted iff right_role & user_role != 0; a request whose
\* validated token fails the test is answered Forbidden and never waits for
\* the lock, holds it, or changes the queue, whatever else it carries.
C9_AccessGate ==
  /\ [](\A t \in Threads :
          /\ (Validated(t) /\ ~Granted(t)) =>
               pc[t] = "ret" /\ resp[t].status = "Forbidden" /\ ~guard[t]
          /\ (Validated(t) /\ Granted(t)) => resp[t].status # "Forbidden"
          /\ resp[t].status = "Forbidden" => Validated(t))
  /\ [][\A t \in Threads :
          (Validated(t)' /\ ~Granted(t)' /\ loc'[t] # loc[t]) =>
            queue' = queue /\ mutex' = mutex /\ guard' = guard /\ appended' = appended
       ]_vars

\* C9 witness: a request with a valid token of role 2 is refused while the
\* other worker holds the guard on behalf of a granted request.
C9_Witness ==
  \E t, u \in Threads :
    /\ pc[t] = "ret" /\ resp[t].status = "Forbidden"
    /\ Validated(t) /\ loc[t].token.user_role = 2
    /\ guard[u] /\ Validated(u) /\ Granted(u)

\* C10: at most one handler is inside push, get_all or get_from at a time,
\* and a scan sees the queue between two whole pushes: no push has moved the
\* cursor without having written its slot, and the cursor's slot holds the
\* message of the last push.
C10_MutualExclusion ==
  /\ Cardinality({t \in Threads : guard[t]}) <= 1
  /\ \A t \in Threads :
       ( /\ guard[t]
         /\ pc[t] \in {"ret", "spin"}
         /\ loc[t].op \in {"get_messages", "get_messages_from"} )
       => /\ \A u \in Threads : pc[u] # "stored_cursor"
          /\ (appended # <<>> /\ Capacity >= 1) =>
               At(queue, queue.end_index) = appended[Len(appended)]

\* C10 witness: a reader waits for the lock while a push has moved the
\* cursor and not yet written the slot.
C10_Witness ==
  \E t, u \in Threads :
    /\ guard[t] /\ pc[t] = "stored_cursor"
    /\ pc[u] = "lock" /\ loc[u].op = "get_messages"
    /\ appended # <<>>

Values(seq) == [i \in 1 .. Len(seq) |-> seq[i].data]

\* C11: after N appends sent by N workers at once with distinct values into
\* a fresh log of capacity C, get_all lists min(N, C) of them: the entries
\* before the last min(N, C) are placeholders, and the last min(N, C) are the
\* last appended messages, key and value as sent, in the order in which the
\* appends took the lock (two of them with one key included).
C11_ConcurrentAppendsAllListed ==
  \A t \in Threads :
    ( /\ Scanned(t, "get_messages")
      /\ Len(appended) = Cardinality(Threads)
      /\ Distinct(Values(appended)) )
    => /\ Answered(t)
       /\ LET es == Entries(resp[t].body)
              n == Len(appended)
              k == Min(n, Capacity)
          IN /\ Len(es) = Capacity
             /\ \A i \in 1 .. Capacity - k : es[i] = Message("", "")
             /\ \A i \in 1 .. k : es[Capacity - k + i] = appended[n - k + i]

\* The outcomes a handler reports to the client.
Outcomes == {"OK", "BadRequest", "AuthenticationTimeout", "Forbidden",
             "InternalServerError"}

\* C12: no handler panics on a client's payload: whether the payload is
\* missing, not JSON, or an object with token, message and start_key absent,
\* null or present, the handler ends in one of its response outcomes.
C12_NoPanicOnClientInput ==
  \A t \in Threads :
    (pc[t] = "ret" /\ Capacity >= 1) => resp[t].status \in Outcomes

\* C13: get_messages_from with a valid, granted token and no start_key ends
\* in BadRequest, without taking the lock or reading the queue.
C13_MissingStartKeyIsBadRequest ==
  [][\A t \in Threads : \A query \in Queries :
       ( /\ get_messages_from_begin(t, query)
         /\ query.kind = "map"
         /\ query.token.k = "some"
         /\ query.token.v \in ValidTokens
         /\ BitAnd(right_role, query.token.v.user_role) # 0
         /\ query.start_key.k = "absent" )
       => /\ pc'[t] = "ret"
          /\ resp'[t].status = "BadRequest"
          /\ ~guard'[t]
          /\ mutex' = mutex
          /\ queue' = queue
    ]_vars

\* C14: when queue.lock() fails on a poisoned mutex the handler reports
\* InternalServerError and does nothing to the log: no guard is taken, the
\* slots and the cursor stay as they are, and no snapshot is returned.
C14_PoisonedLockIsInternalError ==
  /\ [](\A t \in Threads :
          /\ mutex.poisoned => ~guard[t] /\ pc[t] \notin {"locked", "stored_cursor", "spin"}
          /\ resp[t].status = "InternalServerError" =>
               mutex.poisoned /\ pc[t] = "ret" /\ resp[t].body = <<>>)
  /\ [][\A t \in Threads :
          (pc[t] = "lock" /\ mutex.poisoned /\ pc'[t] # "lock") =>
            /\ pc'[t] = "ret"
            /\ resp'[t] = [status |-> "InternalServerError", body |-> <<>>]
            /\ queue' = queue
            /\ appended' = appended
       ]_vars

\* C14 witness: on a poisoned mutex a set_message and a get_messages_from
\* have both been answered InternalServerError.
C14_Witness ==
  \E t, u \in Threads :
    /\ mutex.poisoned
    /\ loc[t].op = "set_message" /\ resp[t].status = "InternalServerError"
    /\ loc[u].op = "get_messages_from" /\ resp[u].status = "InternalServerError"

\* C15: an accepted push sets end_index to (end_index + 1) mod C, replaces
\* the slot under the new cursor with the new (key, message) and leaves the
\* other C-1 slots, the number of slots and max_message_len as they were.
C15_PushFrame ==
  [][\A t \in Threads :
       Capacity >= 1 =>
         /\ (pc[t] = "locked" /\ pc'[t] = "stored_cursor") =>
              /\ queue'.end_index = (queue.end_index + 1) % Capacity
              /\ queue'.messages = queue.messages
              /\ queue'.max_message_len = queue.max_message_len
         /\ (pc[t] = "stored_cursor" /\ pc'[t] # "stored_cursor") =>
              /\ resp'[t].status = "OK"
              /\ queue'.end_index = queue.end_index
              /\ Len(queue'.messages) = Capacity
              /\ queue'.max_message_len = queue.max_message_len
              /\ \A i \in 0 .. Capacity - 1 :
                   At(queue', i) = IF i = queue.end_index
                                     THEN Message(loc[t].key, loc[t].message)
                                     ELSE At(queue, i)
    ]_vars

\* C15 witness: a push has wrapped the cursor to 0 and overwritten a message
\* appended before it, in a log of two slots or more.
C15_Witness ==
  \E t \in Threads :
    /\ pc[t] = "ret" /\ guard[t] /\ loc[t].op = "set_message"
    /\ resp[t].status = "OK"
    /\ Capacity >= 2 /\ queue.end_index = 0
    /\ Len(appended) > Capacity

\* C16: in a log built with capacity C >= 1, end_index is in [0, C) and the
\* number of slots is the C of construction, in every reachable state.
C16_CursorInRange ==
  Capacity >= 1 =>
    /\ queue.end_index \in 0 .. Capacity - 1
    /\ Capacity * queue.max_message_len = queue.output_capacity

\* C16 witness: the cursor is on the last slot after the log has wrapped,
\* while a refused push waits to return and a reader waits for the lock.
C16_Witness ==
  \E t, u \in Threads :
    /\ Capacity >= 2 /\ queue.end_index = Capacity - 1
    /\ Len(appended) > Capacity
    /\ pc[t] = "ret" /\ guard[t] /\ resp[t].status = "BadRequest"
    /\ pc[u] = "lock" /\ loc[u].op = "get_messages"

\* The first slot, oldest first and the oldest left out, that holds key k.
FirstHolder(k) ==
  CHOOSE i \in Holders(k) \ {1} : \A j \in Holders(k) \ {1} : i <= j

\* C17: when several slots hold the marker key, get_from starts at the first
\* of them in oldest-to-newest order (the oldest slot is not matched) and
\* returns every slot from there to the newest.
C17_FirstOccurrenceGoverns ==
  \A t \in Threads :
    ( /\ Scanned(t, "get_messages_from")
      /\ Cardinality(Holders(loc[t].key)) >= 2 )
    => /\ Answered(t)
       /\ Entries(resp[t].body) = Suffix(Chron(queue), FirstHolder(loc[t].key))

\* The keys a scan may be asked for in the current state.
ProbeKeys == StartKeys \cup Range(Keys(queue.messages))

\* seq is what is left of whole after its first from - 1 elements.
IsSuffixFrom(seq, whole, from) ==
  /\ Len(seq) = Len(whole) - from + 1
  /\ \A i \in 1 .. Len(seq) : seq[i] = whole[from + i - 1]

\* C18: whenever get_from(key) and get_all both return, what get_from lists
\* is a contiguous suffix, possibly empty, of what get_all lists in the same
\* state, and the suffix never reaches back to the oldest slot.
C18_FromIsSuffixOfAll ==
  /\ \A t \in Threads :
       ( /\ Scanned(t, "get_messages_from")
         /\ Answered(t)
         /\ get_all(queue).status = "ok" )
       => \E from \in 2 .. Capacity + 1 :
            IsSuffixFrom(Entries(resp[t].body), Entries(get_all(queue).result), from)
  /\ \A k \in ProbeKeys :
       (get_from(queue, k).status = "ok" /\ get_all(queue).status = "ok")
       => \E from \in 2 .. Capacity + 1 :
            IsSuffixFrom(Entries(get_from(queue, k).result),
                         Entries(get_all(queue).result), from)

\* C18 witness: get_from has returned some, not all, of the slots of a log
\* whose oldest slot holds the marker key too.
C18_Witness ==
  \E t \in Threads :
    /\ Scanned(t, "get_messages_from") /\ Answered(t)
    /\ Len(Entries(resp[t].body)) >= 1
    /\ Len(Entries(resp[t].body)) < Capacity - 1
    /\ 1 \in Holders(loc[t].key)

\* No push is between its cursor update and its slot write.
Whole == \A u \in Threads : pc[u] # "stored_cursor"

\* C19: the cursor's first position, 0, counts as written: the first push
\* lands in slot 1 (when C > 1), slot 0 is the last placeholder to go, and
\* after n <= C pushes the slots read from (end_index + 1) mod C are C - n
\* placeholders followed by the n pushed messages in push order.
C19_PlaceholdersThenAppends ==
  (Capacity >= 1 /\ Whole /\ Len(appended) <= Capacity) =>
    LET n == Len(appended)
    IN /\ \A i \in 1 .. Capacity - n : Chron(queue)[i] = Message("", "")
       /\ \A i \in 1 .. n : Chron(queue)[Capacity - n + i] = appended[i]
       /\ (n < Capacity) => At(queue, 0) = Message("", "")
       /\ (n >= 1 /\ Capacity > 1) => At(queue, 1) = appended[1]

\* C19 witness: two pushes into a log of three slots: slot 0 is the one
\* placeholder left.
C19_Witness ==
  /\ Capacity = 3 /\ Whole /\ Len(appended) = 2
  /\ queue.end_index = 2
  /\ At(queue, 0) = Message("", "")
====
